---- MODULE Spec2Model ----
(***************************************************************************)
(* File discovery and tabular loading of the polar-plant EC dashboard.     *)
(*                                                                         *)
(* Three revisions of the dashboard are modelled side by side:             *)
(*   main.py         find_file_by_school_and_keyword, find_growth_xlsx,    *)
(*                   safe_read_csv, try_parse_time                         *)
(*   (test2)main.py  load_school_env_data, load_growth_data                *)
(*   (test3)main.py  load_school_env_data, load_school_growth_data,        *)
(*                   load_all_growth_data                                  *)
(*                                                                         *)
(* Strings are sequences of Unicode code points, so that normalisation,    *)
(* substring tests, suffix extraction and ordering are computed the way    *)
(* Python computes them.  File contents are sequences of bytes.            *)
(***************************************************************************)
EXTENDS Integers, Sequences, FiniteSets, TLC

VARIABLES dataDir, listing, call, result, ui, page, proc, cache

vars == <<dataDir, listing, call, result, ui, page, proc, cache>>

(***************************************************************************)
(* Bounds of the model.                                                    *)
(***************************************************************************)
\* largest number of entries the data directory holds
MaxEntries == 2

(***************************************************************************)
(* String literals of the source, as code point sequences.                 *)
(***************************************************************************)
\* SCHOOLS = ["송도고", "하늘고", "아라고", "동산고"]
SCHOOLS ==
    << <<49569, 46020, 44256>>, <<54616, 45720, 44256>>,
       <<50500, 46972, 44256>>, <<46041, 49328, 44256>> >>

SchoolSet == {SCHOOLS[i] : i \in DOMAIN SCHOOLS}

\* "환경데이터"
KwEnv == <<54872, 44221, 45936, 51060, 53552>>

\* "4개교"
Kw4 == <<52, 44060, 44368>>

\* "생육결과데이터"
KwGrowth == <<49373, 50977, 44208, 44284, 45936, 51060, 53552>>

\* ".csv"
ExtCsv == <<46, 99, 115, 118>>

\* ".xlsx"
ExtXlsx == <<46, 120, 108, 115, 120>>

\* "time"
ColTime == <<116, 105, 109, 101>>

(***************************************************************************)
(* unicodedata.normalize for Hangul: the arithmetic decomposition of a     *)
(* precomposed syllable into leading consonant, vowel and optional         *)
(* trailing consonant, and the inverse composition.  Every other code      *)
(* point of the model (ASCII) is its own normal form.                      *)
(***************************************************************************)
IsSyllable(c) == c >= 44032 /\ c < 44032 + 11172
IsLeadJamo(c) == c >= 4352 /\ c < 4352 + 19
IsVowelJamo(c) == c >= 4449 /\ c < 4449 + 21
IsTrailJamo(c) == c > 4519 /\ c < 4519 + 28

Decompose(c) ==
    IF IsSyllable(c)
    THEN LET s == c - 44032
             l == 4352 + (s \div 588)
             v == 4449 + ((s % 588) \div 28)
             t == s % 28
         IN  IF t = 0 THEN <<l, v>> ELSE <<l, v, 4519 + t>>
    ELSE <<c>>

RECURSIVE DecomposeAll(_)
DecomposeAll(s) ==
    IF s = <<>> THEN <<>> ELSE Decompose(Head(s)) \o DecomposeAll(Tail(s))

RECURSIVE ComposeFrom(_, _)
ComposeFrom(acc, rest) ==
    IF rest = <<>> THEN acc
    ELSE LET c == Head(rest)
             n == Len(acc)
             last == IF n = 0 THEN 0 ELSE acc[n]
         IN  IF IsLeadJamo(last) /\ IsVowelJamo(c)
             THEN ComposeFrom(
                    [acc EXCEPT ![n] = 44032 + ((last - 4352) * 21 + (c - 4449)) * 28],
                    Tail(rest))
             ELSE IF IsSyllable(last) /\ (last - 44032) % 28 = 0 /\ IsTrailJamo(c)
             THEN ComposeFrom([acc EXCEPT ![n] = last + (c - 4519)], Tail(rest))
             ELSE ComposeFrom(Append(acc, c), Tail(rest))

\* unicodedata.normalize("NFD", s)
nfd(s) == DecomposeAll(s)

\* unicodedata.normalize("NFC", s): canonical decomposition, then composition
nfc(s) == ComposeFrom(<<>>, DecomposeAll(s))

(***************************************************************************)
(* Python str and pathlib operations.                                      *)
(***************************************************************************)
\* sub in s
Contains(sub, s) ==
    \E i \in 0..(Len(s) - Len(sub)) : SubSeq(s, i + 1, i + Len(sub)) = sub

\* str.lower(): only ASCII capitals have a lower-case form in the model's alphabet
lower(s) == [i \in DOMAIN s |-> IF s[i] >= 65 /\ s[i] <= 90 THEN s[i] + 32 ELSE s[i]]

\* a < b on str: code point order
RECURSIVE StrLess(_, _)
StrLess(a, b) ==
    IF a = <<>> THEN b # <<>>
    ELSE IF b = <<>> THEN FALSE
    ELSE IF Head(a) = Head(b) THEN StrLess(Tail(a), Tail(b))
    ELSE Head(a) < Head(b)

\* 1-based position of the last ".", 0 when there is none (str.rfind)
RFindDot(name) ==
    LET idx == {i \in DOMAIN name : name[i] = 46}
    IN  IF idx = {} THEN 0 ELSE CHOOSE i \in idx : \A j \in idx : j <= i

\* PurePath.suffix
suffix(name) ==
    LET i == RFindDot(name)
    IN  IF 1 < i /\ i < Len(name) THEN SubSeq(name, i, Len(name)) ELSE <<>>

\* PurePath.stem
stem(name) ==
    LET i == RFindDot(name)
    IN  IF 1 < i /\ i < Len(name) THEN SubSeq(name, 1, i - 1) ELSE name

(***************************************************************************)
(* The data directory.  dataDir tells whether the path DATA_DIR is absent, *)
(* a directory, or something that exists without being a directory;       *)
(* listing is the set of entries directly inside it.                       *)
(***************************************************************************)
\* ".CSV"
ExtCsvUpper == <<46, 67, 83, 86>>

\* "{school}_환경데이터{ext}"
EnvName(school, ext) == school \o <<95>> \o KwEnv \o ext

\* "4개교_생육결과데이터.xlsx"
GrowthName == Kw4 \o <<95>> \o KwGrowth \o ExtXlsx

\* the entry names the model draws directory listings from
Names ==
    { EnvName(SCHOOLS[1], ExtCsv),          \* composed form on disk
      nfd(EnvName(SCHOOLS[1], ExtCsv)),     \* decomposed form on disk
      EnvName(SCHOOLS[1], ExtCsvUpper),     \* upper-case suffix
      nfd(EnvName(SCHOOLS[2], ExtCsv)),
      EnvName(SCHOOLS[4], ExtCsv),
      SCHOOLS[1] \o ExtCsv,                 \* school name without the keyword
      KwEnv \o ExtCsv,                      \* keyword without a school name
      GrowthName,
      nfd(GrowthName),
      EnvName(SCHOOLS[1], <<46, 116, 120, 116>>) }   \* suffix ".txt"

Kinds == {"file", "dir"}

DirStates == {"absent", "dir", "notdir"}

EntryNames(L) == {e.name : e \in L}

\* the sheet names of the workbooks the model reads: "Sheet1", a school name
\* in decomposed form, a school name in composed form
SheetNames == {<<83, 104, 101, 101, 116, 49>>, nfd(SCHOOLS[1]), SCHOOLS[2]}

\* one table per string, so that the normal forms are computed once
Normalised ==
    Names \cup {stem(n) : n \in Names} \cup SchoolSet \cup SheetNames
          \cup {KwEnv, Kw4, KwGrowth}
NfcOf == [n \in Normalised |-> nfc(n)]
NfdOf == [n \in Normalised |-> nfd(n)]

(***************************************************************************)
(* Values a call returns: None, a path, a table, or a raised exception.    *)
(***************************************************************************)
NoTable == [cols |-> <<>>, rows |-> <<>>]

None == [kind |-> "none", name |-> <<>>, table |-> NoTable, exc |-> ""]
PathOf(n) == [kind |-> "path", name |-> n, table |-> NoTable, exc |-> ""]
TableOf(n, t) == [kind |-> "table", name |-> n, table |-> t, exc |-> ""]
Raised(n, x) == [kind |-> "raise", name |-> n, table |-> NoTable, exc |-> x]
Idle == [kind |-> "idle", name |-> <<>>, table |-> NoTable, exc |-> ""]

NoCall ==
    [op |-> "none", school |-> <<>>, keyword |-> <<>>, ext |-> <<>>,
     path |-> <<>>, bytes |-> <<>>, df |-> None, order |-> <<>>, wbs |-> <<>>]

(***************************************************************************)
(* main.py: find_file_by_school_and_keyword and find_growth_xlsx.          *)
(***************************************************************************)
RECURSIVE SortByName(_)
\* sorted(DATA_DIR.iterdir(), key=lambda x: x.name)
SortByName(L) ==
    IF L = {} THEN <<>>
    ELSE LET m == CHOOSE e \in L : \A f \in L \ {e} : StrLess(e.name, f.name)
         IN  <<m>> \o SortByName(L \ {m})

SortedReversed(L) ==
    LET s == SortByName(L) IN [i \in DOMAIN s |-> s[Len(s) + 1 - i]]

\* the order in which main.py visits the entries
ScanOrderMain(L) == SortByName(L)

\* p.is_file()
is_file(e) == e.kind = "file"

SuffixIgnored(name, ext) == TRUE

\* not (p.suffix.lower() != ext.lower())
SuffixOkMain(name, ext) == lower(suffix(name)) = lower(ext)

RawContains(key, name) == Contains(key, name)

\* (k_nfc in n_nfc) or (k_nfd in n_nfd) or (k_nfc in n_nfd) or (k_nfd in n_nfc)
FourWayContains(key, name) ==
    \/ Contains(NfcOf[key], NfcOf[name])
    \/ Contains(NfdOf[key], NfdOf[name])
    \/ Contains(NfcOf[key], NfdOf[name])
    \/ Contains(NfdOf[key], NfcOf[name])

MatchEither(e, school, keyword, ext) ==
    /\ is_file(e)
    /\ SuffixOkMain(e.name, ext)
    /\ (FourWayContains(school, e.name) \/ FourWayContains(keyword, e.name))

\* the loop body of find_file_by_school_and_keyword: does it return p?
MatchMain(e, school, keyword, ext) ==
    /\ is_file(e)
    /\ SuffixOkMain(e.name, ext)
    /\ FourWayContains(school, e.name)
    /\ FourWayContains(keyword, e.name)

\* the first element of a scan order that satisfies a test, or None
FirstHit(seq, hits) ==
    IF hits = {} THEN None
    ELSE PathOf(seq[CHOOSE i \in hits : \A j \in hits : i <= j].name)

find_file_by_school_and_keyword(school, keyword, ext) ==
    IF dataDir = "absent" THEN None
    ELSE IF dataDir = "notdir" THEN Raised(<<>>, "NotADirectoryError")
    ELSE LET seq == ScanOrderMain(listing)
         IN  FirstHit(seq, {i \in DOMAIN seq : MatchMain(seq[i], school, keyword, ext)})

\* the loop body of find_growth_xlsx: the literals are compared as written
\* (composed) against both forms of the name
MatchGrowth(e) ==
    /\ is_file(e)
    /\ lower(suffix(e.name)) = ExtXlsx
    /\ (Contains(Kw4, NfcOf[e.name]) \/ Contains(Kw4, NfdOf[e.name]))
    /\ (Contains(KwGrowth, NfcOf[e.name]) \/ Contains(KwGrowth, NfdOf[e.name]))

find_growth_xlsx ==
    IF dataDir = "absent" THEN None
    ELSE IF dataDir = "notdir" THEN Raised(<<>>, "NotADirectoryError")
    ELSE LET seq == ScanOrderMain(listing)
         IN  FirstHit(seq, {i \in DOMAIN seq : MatchGrowth(seq[i])})

(***************************************************************************)
(* Text decoding.  A decoder yields the decoded text or fails.             *)
(***************************************************************************)
DecodeError == [ok |-> FALSE, text |-> <<>>]
Decoded(t) == [ok |-> TRUE, text |-> t]

IsCont(b) == b >= 128 /\ b <= 191

RECURSIVE Utf8From(_, _)
\* the UTF-8 decoder: one to four bytes per code point, no overlong forms,
\* no surrogates, nothing above U+10FFFF
Utf8From(acc, bs) ==
    IF bs = <<>> THEN Decoded(acc)
    ELSE LET b == bs[1]
             n == Len(bs)
         IN  IF b < 128 THEN Utf8From(Append(acc, b), Tail(bs))
             ELSE IF b >= 194 /\ b <= 223 /\ n >= 2 /\ IsCont(bs[2])
             THEN Utf8From(Append(acc, (b - 192) * 64 + (bs[2] - 128)),
                           SubSeq(bs, 3, n))
             ELSE IF /\ b >= 224 /\ b <= 239 /\ n >= 3
                     /\ IsCont(bs[2]) /\ IsCont(bs[3])
                     /\ (b = 224 => bs[2] >= 160)
                     /\ (b = 237 => bs[2] <= 159)
             THEN Utf8From(Append(acc, (b - 224) * 4096 + (bs[2] - 128) * 64
                                       + (bs[3] - 128)),
                           SubSeq(bs, 4, n))
             ELSE IF /\ b >= 240 /\ b <= 244 /\ n >= 4
                     /\ IsCont(bs[2]) /\ IsCont(bs[3]) /\ IsCont(bs[4])
                     /\ (b = 240 => bs[2] >= 144)
                     /\ (b = 244 => bs[2] <= 143)
             THEN Utf8From(Append(acc, (b - 240) * 262144 + (bs[2] - 128) * 4096
                                       + (bs[3] - 128) * 64 + (bs[4] - 128)),
                           SubSeq(bs, 5, n))
             ELSE DecodeError

\* encoding="utf-8-sig": a leading byte order mark EF BB BF is dropped
DecodeUtf8Sig(bs) ==
    IF Len(bs) >= 3 /\ SubSeq(bs, 1, 3) = <<239, 187, 191>>
    THEN Utf8From(<<>>, SubSeq(bs, 4, Len(bs)))
    ELSE Utf8From(<<>>, bs)

IsCp949Trail(b) ==
    \/ b >= 65 /\ b <= 90
    \/ b >= 97 /\ b <= 122
    \/ b >= 129 /\ b <= 254

RECURSIVE Cp949From(_, _)
\* the cp949 decoder: ASCII bytes stand for themselves, a lead byte 81..FE
\* takes one trail byte.  The character a two-byte code stands for is looked
\* up in the code page; the model writes it 65536 + 256 * lead + trail, which
\* keeps different codes different.
Cp949From(acc, bs) ==
    IF bs = <<>> THEN Decoded(acc)
    ELSE LET b == bs[1]
             n == Len(bs)
         IN  IF b < 128 THEN Cp949From(Append(acc, b), Tail(bs))
             ELSE IF b >= 129 /\ b <= 254 /\ n >= 2 /\ IsCp949Trail(bs[2])
             THEN Cp949From(Append(acc, 65536 + 256 * b + bs[2]), SubSeq(bs, 3, n))
             ELSE DecodeError

DecodeCp949(bs) == Cp949From(<<>>, bs)

Encodings == {"utf-8-sig", "cp949", "utf-8"}

\* pandas drops a byte order mark under the default encoding as well
Decode(bs, enc) == IF enc = "cp949" THEN DecodeCp949(bs) ELSE DecodeUtf8Sig(bs)

(***************************************************************************)
(* Tables.  A table has a sequence of column names and a sequence of rows, *)
(* a row being a sequence of cells, one per column.                        *)
(***************************************************************************)
StrCell(s) == [t |-> "str", s |-> s, v |-> 0]
NaN == [t |-> "nan", s |-> <<>>, v |-> 0]
Timestamp(v) == [t |-> "ts", s |-> <<>>, v |-> v]
NaT == [t |-> "nat", s |-> <<>>, v |-> 0]

RECURSIVE Split(_, _)
\* str.split(sep)
Split(s, sep) ==
    LET idx == {i \in DOMAIN s : s[i] = sep}
    IN  IF idx = {} THEN <<s>>
        ELSE LET i == CHOOSE k \in idx : \A j \in idx : k <= j
             IN  <<SubSeq(s, 1, i - 1)>> \o Split(SubSeq(s, i + 1, Len(s)), sep)

\* the non-blank lines of a text (skip_blank_lines=True)
Lines(text) == SelectSeq(Split(text, 10), LAMBDA l : l # <<>>)

\* one data line as a row of ncols cells: missing and empty fields are NaN
RowOf(line, ncols) ==
    LET f == Split(line, 44)
    IN  [c \in 1..ncols |->
            IF c > Len(f) \/ f[c] = <<>> THEN NaN ELSE StrCell(f[c])]

\* the parser of pd.read_csv on decoded text.  A file without any line has no
\* columns to parse; a data line with more fields than the line before it is
\* a tokenizing error.  (The texts of the model have no quoting and no first
\* data line longer than the header.)
ParseCsv(text) ==
    LET ls == Lines(text)
    IN  IF ls = <<>> THEN [ok |-> FALSE, exc |-> "EmptyDataError", table |-> NoTable]
        ELSE IF \E k \in 3..Len(ls) :
                    Len(Split(ls[k], 44)) > Len(Split(ls[k - 1], 44))
        THEN [ok |-> FALSE, exc |-> "ParserError", table |-> NoTable]
        ELSE LET header == Split(ls[1], 44)
             IN  [ok |-> TRUE, exc |-> "",
                  table |-> [cols |-> header,
                             rows |-> [k \in 1..(Len(ls) - 1) |->
                                          RowOf(ls[k + 1], Len(header))]]]

(***************************************************************************)
(* File contents the model reads, as bytes.                                *)
(***************************************************************************)
\* "time,ec\n"
HdrTimeEc == <<116, 105, 109, 101, 44, 101, 99, 10>>

\* "temperature,ec\n"
HdrTempEc == <<116, 101, 109, 112, 101, 114, 97, 116, 117, 114, 101, 44, 101, 99, 10>>

\* "2025-05-01" and "2025-05-02"
Day1 == <<50, 48, 50, 53, 45, 48, 53, 45, 48, 49>>
Day2 == <<50, 48, 50, 53, 45, 48, 53, 45, 48, 50>>

\* "bad"
Bad == <<98, 97, 100>>

Contents ==
    { \* "time,ec\n2025-05-02,1\n2025-05-01,2\n": timestamps out of order
      HdrTimeEc \o Day2 \o <<44, 49, 10>> \o Day1 \o <<44, 50, 10>>,
      \* "time,ec\n2025-05-02,a\n,b\n2025-05-01,c\n2025-05-02,d\n": out of
      \* order, with a missing time and two rows of the same time
      HdrTimeEc \o Day2 \o <<44, 97, 10>> \o <<44, 98, 10>> \o Day1 \o <<44, 99, 10>>
                \o Day2 \o <<44, 100, 10>>,
      \* the same with a byte order mark and a single row
      <<239, 187, 191>> \o HdrTimeEc \o Day1 \o <<44, 49, 10>>,
      \* a cell holding B0 A1: valid cp949, not valid UTF-8
      HdrTimeEc \o Day1 \o <<44, 176, 161, 10>>,
      \* a cell holding EA B0 80: valid UTF-8, not valid cp949
      HdrTimeEc \o Day1 \o <<44, 234, 176, 128, 10>>,
      \* a byte FF: valid in neither encoding
      HdrTimeEc \o <<255, 10>>,
      \* "time,ec\n2025-05-01,1\nbad,2\n": a time value that is no timestamp
      HdrTimeEc \o Day1 \o <<44, 49, 10>> \o Bad \o <<44, 50, 10>>,
      \* "temperature,ec\n1,2\n": no time column
      HdrTempEc \o <<49, 44, 50, 10>>,
      \* "temperature,ec\n": no time column and no rows
      HdrTempEc,
      \* an empty file
      <<>>,
      \* cp949 bytes in a file whose third line has too many fields
      HdrTimeEc \o Day1 \o <<44, 176, 161, 10>> \o Day2 \o <<44, 49, 44, 57, 44, 57, 10>> }

\* decoding and parsing each content once
ParsedAs ==
    [bs \in Contents, enc \in Encodings |->
        LET d == Decode(bs, enc)
        IN  IF d.ok THEN ParseCsv(d.text)
            ELSE [ok |-> FALSE, exc |-> "UnicodeDecodeError", table |-> NoTable]]

(***************************************************************************)
(* pd.read_csv(path, encoding=enc) on the file system of the model.        *)
(***************************************************************************)
OpenError(name) ==
    IF dataDir = "absent" THEN "FileNotFoundError"
    ELSE IF dataDir = "notdir" THEN "NotADirectoryError"
    ELSE IF name \notin EntryNames(listing) THEN "FileNotFoundError"
    ELSE IF [name |-> name, kind |-> "dir"] \in listing THEN "IsADirectoryError"
    ELSE ""

read_csv(name, bs, enc) ==
    IF OpenError(name) # "" THEN Raised(name, OpenError(name))
    ELSE IF ParsedAs[bs, enc].ok THEN TableOf(name, ParsedAs[bs, enc].table)
    ELSE Raised(name, ParsedAs[bs, enc].exc)

(***************************************************************************)
(* main.py: safe_read_csv.  The outcome is the returned value, the         *)
(* messages shown, and the encodings tried in order.                       *)
(***************************************************************************)
Warning(msg, about, cause) ==
    [level |-> "warning", msg |-> msg, about |-> about, cause |-> cause]

Error(msg, about) ==
    [level |-> "error", msg |-> msg, about |-> about, cause |-> ""]

Outcome(r, msgs, tried) == [ret |-> r, ui |-> msgs, attempts |-> tried]

SilentFailure(name, r, tried) == Outcome(None, {}, tried)

\* st.warning(f"CSV 읽기 실패: {path.name} - 에러: {e}"); return None
ReadFailed(name, r, tried) ==
    Outcome(None, {Warning("csv_read_failed", name, r.exc)}, tried)

NoFallback(name, r1, r2) == ReadFailed(name, r1, <<"utf-8-sig">>)

\* the handler of UnicodeDecodeError: the second attempt
Fallback(name, r1, r2) ==
    IF r2.kind = "table" THEN Outcome(r2, {}, <<"utf-8-sig", "cp949">>)
    ELSE ReadFailed(name, r2, <<"utf-8-sig", "cp949">>)

RetryOnAnyError(name, bs) ==
    LET r1 == read_csv(name, bs, "utf-8-sig")
    IN  IF r1.kind = "table" THEN Outcome(r1, {}, <<"utf-8-sig">>)
        ELSE Fallback(name, r1, read_csv(name, bs, "cp949"))

\* try utf-8-sig; on UnicodeDecodeError try cp949; a missing file is None
\* without a message; anything else is a warning and None
safe_read_csv(name, bs) ==
    LET r1 == read_csv(name, bs, "utf-8-sig")
    IN  IF r1.kind = "table" THEN Outcome(r1, {}, <<"utf-8-sig">>)
        ELSE IF r1.exc = "UnicodeDecodeError"
        THEN Fallback(name, r1, read_csv(name, bs, "cp949"))
        ELSE IF r1.exc = "FileNotFoundError" THEN Outcome(None, {}, <<"utf-8-sig">>)
        ELSE ReadFailed(name, r1, <<"utf-8-sig">>)

(***************************************************************************)
(* main.py: try_parse_time.                                                *)
(***************************************************************************)
IsDigit(c) == c >= 48 /\ c <= 57

\* the timestamp a "YYYY-MM-DD" text denotes, as a day count; -1 when the text
\* is no such date
ParseDate(s) ==
    IF /\ Len(s) = 10
       /\ s[5] = 45 /\ s[8] = 45
       /\ \A k \in {1, 2, 3, 4, 6, 7, 9, 10} : IsDigit(s[k])
    THEN LET y == (s[1] - 48) * 1000 + (s[2] - 48) * 100 + (s[3] - 48) * 10 + (s[4] - 48)
             m == (s[6] - 48) * 10 + (s[7] - 48)
             d == (s[9] - 48) * 10 + (s[10] - 48)
         IN  IF m >= 1 /\ m <= 12 /\ d >= 1 /\ d <= 31
             THEN (y * 12 + (m - 1)) * 31 + (d - 1)
             ELSE -1
    ELSE -1

\* does pd.to_datetime raise on this cell?
Unparseable(cell) == cell.t = "str" /\ ParseDate(cell.s) = -1

\* pd.to_datetime on one cell that it accepts: a missing value becomes NaT
ToDatetime(cell) ==
    IF cell.t = "str" THEN Timestamp(ParseDate(cell.s))
    ELSE IF cell.t = "nan" THEN NaT
    ELSE cell

\* position of the column named "time"
TimeIndex(cols) ==
    CHOOSE i \in DOMAIN cols : cols[i] = ColTime /\ \A j \in 1..(i - 1) : cols[j] # ColTime

HasTime(t) == \E i \in DOMAIN t.cols : t.cols[i] = ColTime

\* DataFrame.empty
empty(t) == Len(t.cols) = 0 \/ Len(t.rows) = 0

\* ascending order of two time cells, NaT last
TimeLeq(a, b) == b.t = "nat" \/ (a.t = "ts" /\ b.t = "ts" /\ a.v <= b.v)

Unsorted(rows, ti) == {rows}

\* df.sort_values("time"): the rows in every order that is ascending by the
\* time column (the default sort is not stable, so ties may come in any order)
SortValues(rows, ti) ==
    LET n == Len(rows)
        perms == {p \in [1..n -> 1..n] : \A k \in 1..n : \E j \in 1..n : p[j] = k}
    IN  {[k \in 1..n |-> rows[p[k]]] :
            p \in {q \in perms :
                     \A k \in 1..(n - 1) : TimeLeq(rows[q[k]][ti], rows[q[k + 1]][ti])}}

\* df["time"] = pd.to_datetime(df["time"])
WithParsedTime(rows, ti) ==
    [k \in DOMAIN rows |-> [rows[k] EXCEPT ![ti] = ToDatetime(rows[k][ti])]]

CoercedOnFailure(df, school) ==
    {Outcome(TableOf(df.name, [cols |-> df.table.cols,
                               rows |-> [k \in DOMAIN df.table.rows |->
                                   [df.table.rows[k] EXCEPT ![TimeIndex(df.table.cols)] = NaT]]]),
             {Warning("time_parse_failed", school, "ValueError")}, <<>>)}

\* the except branch: warn and return the copy, which still holds the
\* original column
ParseFailed(df, school) ==
    {Outcome(df, {Warning("time_parse_failed", school, "ValueError")}, <<>>)}

NoTimeColumnSilent(df, school) == {Outcome(df, {}, <<>>)}

\* the branch for a table without a "time" column: warn and return df
NoTimeColumn(df, school) ==
    {Outcome(df, {Warning("no_time_column", school, "")}, <<>>)}

\* the outcomes try_parse_time(df, school) can have
try_parse_time(df, school) ==
    IF df.kind # "table" THEN {Outcome(df, {}, <<>>)}
    ELSE IF empty(df.table) THEN {Outcome(df, {}, <<>>)}
    ELSE IF ~HasTime(df.table)
    THEN NoTimeColumn(df, school)
    ELSE LET ti == TimeIndex(df.table.cols)
         IN  IF \E k \in DOMAIN df.table.rows : Unparseable(df.table.rows[k][ti])
             THEN ParseFailed(df, school)
             ELSE {Outcome(TableOf(df.name, [cols |-> df.table.cols, rows |-> r]), {}, <<>>) :
                     r \in SortValues(WithParsedTime(df.table.rows, ti), ti)}

\* the tables the model hands to try_parse_time: whatever read_csv can yield
DataFrames ==
    {None} \cup
    {TableOf(<<>>, ParsedAs[bs, enc].table) :
        bs \in {c \in Contents : ParsedAs[c, "utf-8-sig"].ok}, enc \in {"utf-8-sig"}}

(***************************************************************************)
(* Spreadsheets.  A workbook is a sequence of named sheets, each a table;  *)
(* a file that is no workbook cannot be opened.                            *)
(***************************************************************************)
\* a one-column growth table whose single cell tells the sheets apart:
\* column "leaf", one row
SheetTable(v) == [cols |-> << <<108, 101, 97, 102>> >>, rows |-> << <<StrCell(<<v>>)>> >>]

NotAWorkbook == [ok |-> FALSE, sheets |-> <<>>]

Workbooks ==
    { NotAWorkbook,
      [ok |-> TRUE,
       sheets |-> << [name |-> <<83, 104, 101, 101, 116, 49>>, table |-> SheetTable(49)] >>],
      [ok |-> TRUE,
       sheets |-> << [name |-> nfd(SCHOOLS[1]), table |-> SheetTable(50)],
                     [name |-> SCHOOLS[2], table |-> SheetTable(51)] >>] }

\* pd.ExcelFile(path): the exception it raises, "" when it opens
ExcelOpenError(name, wb) ==
    IF OpenError(name) # "" THEN OpenError(name)
    ELSE IF ~wb.ok THEN "BadZipFile"
    ELSE ""

\* pd.read_excel(path, sheet_name=k), k = 1 being the default first sheet
read_excel(name, wb, k) ==
    IF ExcelOpenError(name, wb) # "" THEN Raised(name, ExcelOpenError(name, wb))
    ELSE TableOf(name, wb.sheets[k].table)

(***************************************************************************)
(* (test2)main.py and (test3)main.py.  Path.iterdir() yields the entries   *)
(* in an order the file system chooses: every enumeration of the listing   *)
(* is possible.                                                            *)
(***************************************************************************)
Orders(L) ==
    {p \in [1..Cardinality(L) -> L] : \A e \in L : \E i \in DOMAIN p : p[i] = e}

\* the test of the scan of load_school_env_data, the same in both revisions
MatchStemCsv(e, school) ==
    suffix(e.name) = ExtCsv /\ FourWayContains(school, stem(e.name))

\* the entry the scan of load_school_env_data stops at
ScanEnv(school, order) ==
    FirstHit(order, {i \in DOMAIN order : MatchStemCsv(order[i], school)})

\* (test2)main.py load_school_env_data
load_school_env_data_t2(school, order, bs) ==
    IF dataDir = "absent" THEN Outcome(None, {Error("no_data_dir", <<>>)}, <<>>)
    ELSE IF dataDir = "notdir" THEN Outcome(Raised(<<>>, "NotADirectoryError"), {}, <<>>)
    ELSE IF ScanEnv(school, order).kind = "none" THEN Outcome(None, {}, <<>>)
    ELSE Outcome(read_csv(ScanEnv(school, order).name, bs, "utf-8"), {}, <<>>)

\* (test3)main.py load_school_env_data: iterdir() is called without a test
\* that the directory exists
load_school_env_data_t3(school, order, bs) ==
    IF dataDir = "absent" THEN Outcome(Raised(<<>>, "FileNotFoundError"), {}, <<>>)
    ELSE IF dataDir = "notdir" THEN Outcome(Raised(<<>>, "NotADirectoryError"), {}, <<>>)
    ELSE IF ScanEnv(school, order).kind = "none" THEN Outcome(None, {}, <<>>)
    ELSE Outcome(read_csv(ScanEnv(school, order).name, bs, "utf-8"), {}, <<>>)

\* the first entry with the suffix ".xlsx"
ScanXlsx(order) ==
    FirstHit(order, {i \in DOMAIN order : suffix(order[i].name) = ExtXlsx})

\* (test2)main.py load_growth_data
load_growth_data_t2(order, wb) ==
    IF dataDir = "absent" THEN Outcome(None, {Error("no_data_dir", <<>>)}, <<>>)
    ELSE IF dataDir = "notdir" THEN Outcome(Raised(<<>>, "NotADirectoryError"), {}, <<>>)
    ELSE IF ScanXlsx(order).kind = "none" THEN Outcome(None, {}, <<>>)
    ELSE Outcome(read_excel(ScanXlsx(order).name, wb, 1), {}, <<>>)

\* school_nfc == sheet_nfc or school_nfc == sheet_nfd or
\* school_nfd == sheet_nfc or school_nfd == sheet_nfd
FourWayEquals(school, sheet) ==
    \/ NfcOf[school] = NfcOf[sheet]
    \/ NfcOf[school] = NfdOf[sheet]
    \/ NfdOf[school] = NfcOf[sheet]
    \/ NfdOf[school] = NfdOf[sheet]

\* the .xlsx entries in the order they are enumerated
XlsxIn(order) == SelectSeq(order, LAMBDA e : suffix(e.name) = ExtXlsx)

\* the sheets of a workbook that match the school, by position
MatchingSheets(school, wb) ==
    {k \in DOMAIN wb.sheets : FourWayEquals(school, wb.sheets[k].name)}

RECURSIVE GrowthScan(_, _, _)
\* (test3)main.py load_school_growth_data over the remaining .xlsx entries,
\* wbs[i] being the content of files[i]
GrowthScan(school, files, wbs) ==
    IF files = <<>> THEN None
    ELSE IF ExcelOpenError(files[1].name, wbs[1]) # ""
    THEN Raised(files[1].name, ExcelOpenError(files[1].name, wbs[1]))
    ELSE IF MatchingSheets(school, wbs[1]) # {}
    THEN read_excel(files[1].name, wbs[1],
                    CHOOSE k \in MatchingSheets(school, wbs[1]) :
                        \A j \in MatchingSheets(school, wbs[1]) : k <= j)
    ELSE GrowthScan(school, Tail(files), Tail(wbs))

load_school_growth_data(school, order, wbs) ==
    IF dataDir = "absent" THEN Outcome(Raised(<<>>, "FileNotFoundError"), {}, <<>>)
    ELSE IF dataDir = "notdir" THEN Outcome(Raised(<<>>, "NotADirectoryError"), {}, <<>>)
    ELSE Outcome(GrowthScan(school, XlsxIn(order), wbs), {}, <<>>)

\* "학교" and "EC", the columns load_all_growth_data adds
ColSchool == <<54617, 44368>>
ColEC == <<69, 67>>

NumCell(v) == [t |-> "num", s |-> <<>>, v |-> v]

\* school_ec_targets.get(sheet): the sheet name is looked up as it is written
EcTarget(sheet) ==
    IF sheet = SCHOOLS[1] THEN NumCell(1)
    ELSE IF sheet = SCHOOLS[2] THEN NumCell(2)
    ELSE IF sheet = SCHOOLS[3] THEN NumCell(4)
    ELSE IF sheet = SCHOOLS[4] THEN NumCell(8)
    ELSE NaN

\* df["학교"] = sheet; df["EC"] = school_ec_targets.get(sheet)
Tagged(sheet) ==
    [k \in DOMAIN sheet.table.rows |->
        sheet.table.rows[k] \o <<StrCell(sheet.name), EcTarget(sheet.name)>>]

RECURSIVE TaggedSheets(_)
TaggedSheets(sheets) ==
    IF sheets = <<>> THEN <<>> ELSE Tagged(sheets[1]) \o TaggedSheets(Tail(sheets))

RECURSIVE AllSheets(_, _, _)
\* the loop of load_all_growth_data over the remaining .xlsx entries: the rows
\* gathered so far, or the exception of the first file that does not open
AllSheets(rows, files, wbs) ==
    IF files = <<>> THEN [exc |-> "", name |-> <<>>, rows |-> rows]
    ELSE IF ExcelOpenError(files[1].name, wbs[1]) # ""
    THEN [exc |-> ExcelOpenError(files[1].name, wbs[1]), name |-> files[1].name,
          rows |-> <<>>]
    ELSE AllSheets(rows \o TaggedSheets(wbs[1].sheets), Tail(files), Tail(wbs))

\* (test3)main.py load_all_growth_data.  Every sheet of the model has the one
\* column "leaf", so the concatenation has the columns leaf, 학교, EC.
load_all_growth_data(order, wbs) ==
    IF dataDir = "absent" THEN Outcome(Raised(<<>>, "FileNotFoundError"), {}, <<>>)
    ELSE IF dataDir = "notdir" THEN Outcome(Raised(<<>>, "NotADirectoryError"), {}, <<>>)
    ELSE LET a == AllSheets(<<>>, XlsxIn(order), wbs)
         IN  IF a.exc # "" THEN Outcome(Raised(a.name, a.exc), {}, <<>>)
             ELSE IF XlsxIn(order) = <<>> THEN Outcome(None, {}, <<>>)
             ELSE Outcome(TableOf(<<>>, [cols |-> << <<108, 101, 97, 102>>, ColSchool, ColEC >>,
                                         rows |-> a.rows]), {}, <<>>)

(***************************************************************************)
(* main.py: load_env_data_all and load_growth_data, the bodies that the    *)
(* cache decorator wraps.                                                  *)
(***************************************************************************)
\* the value of a call that returned a dict, held apart from the record
Dict == [kind |-> "dict", name |-> <<>>, table |-> NoTable, exc |-> ""]

\* the value of a script run that reached its end
Done == [kind |-> "done", name |-> <<>>, table |-> NoTable, exc |-> ""]

\* one pass of the loop of load_env_data_all: the path the resolver gave,
\* the value stored under the school, and the messages shown on the way
EnvDataFor(school, contents) ==
    LET path == find_file_by_school_and_keyword(school, KwEnv, ExtCsv)
    IN  IF path.kind = "raise" THEN {[path |-> path, ret |-> path, ui |-> {}]}
        ELSE IF path.kind = "none" THEN {[path |-> path, ret |-> None, ui |-> {}]}
        ELSE UNION { LET o == safe_read_csv(path.name, bs)
                     IN  IF o.ret.kind # "table"
                         THEN {[path |-> path, ret |-> None, ui |-> o.ui]}
                         ELSE {[path |-> path, ret |-> t.ret, ui |-> o.ui \cup t.ui] :
                                 t \in try_parse_time(o.ret, school)}
                     : bs \in contents }

SchoolIndex(school) == CHOOSE i \in DOMAIN SCHOOLS : SCHOOLS[i] = school

\* the loop over SCHOOLS, given what each pass does: an exception ends it
EnvAll(parts) ==
    LET raisedAt == {i \in DOMAIN parts : parts[i].ret.kind = "raise"}
        first == CHOOSE i \in raisedAt : \A j \in raisedAt : i <= j
    IN  IF raisedAt = {}
        THEN [ret |-> Dict,
              data |-> [s \in SchoolSet |-> parts[SchoolIndex(s)].ret],
              paths |-> [s \in SchoolSet |-> parts[SchoolIndex(s)].path],
              ui |-> UNION {parts[i].ui : i \in DOMAIN parts}]
        ELSE [ret |-> parts[first].ret, data |-> <<>>, paths |-> <<>>,
              ui |-> UNION {parts[i].ui : i \in 1..(first - 1)}]

\* the outcomes of load_env_data_all() when files hold one of the contents
load_env_data_all(contents) ==
    {EnvAll(<<a, b, c, d>>) : a \in EnvDataFor(SCHOOLS[1], contents),
                              b \in EnvDataFor(SCHOOLS[2], contents),
                              c \in EnvDataFor(SCHOOLS[3], contents),
                              d \in EnvDataFor(SCHOOLS[4], contents)}

\* main.py load_growth_data() when the file found holds the workbook wb
load_growth_data(wb) ==
    LET path == find_growth_xlsx
    IN  IF path.kind = "raise" THEN [ret |-> path, data |-> <<>>, paths |-> <<>>, ui |-> {}]
        ELSE IF path.kind = "none" THEN [ret |-> None, data |-> <<>>, paths |-> <<>>, ui |-> {}]
        ELSE LET r == read_excel(path.name, wb, 1)
             IN  IF r.kind = "table"
                 THEN [ret |-> r, data |-> <<>>, paths |-> <<>>, ui |-> {}]
                 ELSE [ret |-> None, data |-> <<>>, paths |-> <<>>,
                       ui |-> {Warning("excel_read_failed", path.name, r.exc)}]

(***************************************************************************)
(* @st.cache_data.  The decorator keeps, per function and arguments, the   *)
(* value a call returned and the messages it showed; a later call with the *)
(* same arguments gets the value and the messages without the body being   *)
(* run.  A call that raised leaves nothing.  No loader sets ttl or         *)
(* max_entries and no code clears the cache.  A process runs one script,   *)
(* so the cache holds entries of one revision.                             *)
(***************************************************************************)
KeyEnvAll == <<"load_env_data_all", <<>>>>
KeyGrowth == <<"load_growth_data", <<>>>>
KeySchoolEnv(school) == <<"load_school_env_data", school>>
CacheKeys == {KeyEnvAll, KeyGrowth} \cup {KeySchoolEnv(s) : s \in SchoolSet}

NoEntry == [present |-> FALSE, ret |-> Idle, data |-> <<>>, paths |-> <<>>, ui |-> {}]
NoCache == [k \in CacheKeys |-> NoEntry]

\* what a run of the body would leave in the cache (paths is kept beside the
\* value for the properties only: the program stores the value)
Entry(o) ==
    [present |-> o.ret.kind # "raise", ret |-> o.ret, data |-> o.data,
     paths |-> o.paths, ui |-> o.ui]

Uncached(key, outs) == {Entry(o) : o \in outs}

\* the decorated call: the entry of the key if there is one, else the body
CachedCall(key, outs) ==
    IF cache[key].present THEN {cache[key]} ELSE {Entry(o) : o \in outs}

Store(c, key, e) == IF e.present THEN [c EXCEPT ![key] = e] ELSE c

\* the file contents and workbooks the loads of main.py and the decorated
\* calls meet: a table, and bytes no decoder accepts
PageContents ==
    { HdrTimeEc \o Day2 \o <<44, 49, 10>> \o Day1 \o <<44, 50, 10>>,
      HdrTimeEc \o <<255, 10>> }

PageWorkbooks == {wb \in Workbooks : Len(wb.sheets) <= 1}

\* the schools the decorated calls of (test2)main.py are made for: one that
\* files can be named after and one that no entry name of the model holds
CachedSchools == {SCHOOLS[1], SCHOOLS[3]}

(***************************************************************************)
(* main.py, the script: lines 290-325.  env_data and growth_df are the     *)
(* variables of the script; st.error shows a message and goes on.          *)
(***************************************************************************)
NoPage ==
    [status |-> "none", env_data |-> <<>>, growth_df |-> Idle, paths |-> <<>>, hits |-> {}]

NoErrors(env_data, growth_df) == {}

\* for school in SCHOOLS: if env_data.get(school) is None: st.error(...)
\* if growth_df is None: st.error(...)
MissingFileErrors(env_data, growth_df) ==
    {Error("file_not_found", s) : s \in {t \in SchoolSet : env_data[t].kind = "none"}}
    \cup (IF growth_df.kind = "none" THEN {Error("file_not_found", GrowthName)} ELSE {})

(***************************************************************************)
(* The environment: the data directory is created, filled and emptied by   *)
(* whoever deploys the dashboard.  A value returned by a call is           *)
(* observable only until the next step.                                    *)
(***************************************************************************)
\* what a finished script run leaves behind: nothing of the call, of the
\* messages or of the script's variables; the process and its cache stay
Forget ==
    /\ call' = NoCall /\ result' = Idle /\ ui' = {}
    /\ page' = NoPage
    /\ UNCHANGED <<proc, cache>>

\* the program is single-threaded: a call starts when no call is under way
Ready == result = Idle

MakeDataDir ==
    /\ Ready
    /\ dataDir = "absent"
    /\ dataDir' \in {"dir", "notdir"}
    /\ listing' = {}
    /\ Forget

RemoveDataDir ==
    /\ Ready
    /\ dataDir # "absent"
    /\ listing = {}
    /\ dataDir' = "absent"
    /\ listing' = {}
    /\ Forget

CreateEntry ==
    /\ Ready
    /\ dataDir = "dir"
    /\ Cardinality(listing) < MaxEntries
    /\ \E n \in Names \ EntryNames(listing), k \in Kinds :
          listing' = listing \cup {[name |-> n, kind |-> k]}
    /\ UNCHANGED dataDir
    /\ Forget

DeleteEntry ==
    /\ Ready
    /\ \E e \in listing : listing' = listing \ {e}
    /\ UNCHANGED dataDir
    /\ Forget

(***************************************************************************)
(* Calls of the resolvers of main.py.                                      *)
(***************************************************************************)
FindFileBySchoolAndKeyword ==
    /\ Ready
    /\ \E school \in SchoolSet :
        /\ call' = [NoCall EXCEPT !.op = "find_file_by_school_and_keyword",
                                  !.school = school, !.keyword = KwEnv, !.ext = ExtCsv]
        /\ result' = find_file_by_school_and_keyword(school, KwEnv, ExtCsv)
        /\ ui' = {}
        /\ UNCHANGED <<dataDir, listing, page, proc, cache>>

FindGrowthXlsx ==
    /\ Ready
    /\ call' = [NoCall EXCEPT !.op = "find_growth_xlsx", !.ext = ExtXlsx]
    /\ result' = find_growth_xlsx
    /\ ui' = {}
    /\ UNCHANGED <<dataDir, listing, page, proc, cache>>

SafeReadCsv ==
    /\ Ready
    /\ \E name \in Names, bs \in Contents :
          LET o == safe_read_csv(name, bs)
          IN  /\ call' = [NoCall EXCEPT !.op = "safe_read_csv", !.path = name,
                                        !.bytes = bs, !.order = o.attempts]
              /\ result' = o.ret
              /\ ui' = o.ui
    /\ UNCHANGED <<dataDir, listing, page, proc, cache>>

TryParseTime ==
    /\ Ready
    /\ \E df \in DataFrames, school \in SchoolSet :
          \E o \in try_parse_time(df, school) :
              /\ call' = [NoCall EXCEPT !.op = "try_parse_time", !.school = school,
                                        !.df = df]
              /\ result' = o.ret
              /\ ui' = o.ui
    /\ UNCHANGED <<dataDir, listing, page, proc, cache>>

\* the contents of the .xlsx entries of an enumeration, one workbook each
WorkbooksFor(order) == [1..Len(XlsxIn(order)) -> Workbooks]

LoadSchoolEnvDataT2 ==
    /\ Ready
    /\ \E school \in SchoolSet, order \in Orders(listing), bs \in Contents :
          LET o == load_school_env_data_t2(school, order, bs)
          IN  /\ call' = [NoCall EXCEPT !.op = "load_school_env_data_t2",
                                        !.school = school, !.ext = ExtCsv, !.bytes = bs]
              /\ result' = o.ret
              /\ ui' = o.ui
    /\ UNCHANGED <<dataDir, listing, page, proc, cache>>

LoadSchoolEnvDataT3 ==
    /\ Ready
    /\ \E school \in SchoolSet, order \in Orders(listing), bs \in Contents :
          LET o == load_school_env_data_t3(school, order, bs)
          IN  /\ call' = [NoCall EXCEPT !.op = "load_school_env_data_t3",
                                        !.school = school, !.ext = ExtCsv, !.bytes = bs]
              /\ result' = o.ret
              /\ ui' = o.ui
    /\ UNCHANGED <<dataDir, listing, page, proc, cache>>

LoadGrowthDataT2 ==
    /\ Ready
    /\ \E order \in Orders(listing), wb \in Workbooks :
          LET o == load_growth_data_t2(order, wb)
          IN  /\ call' = [NoCall EXCEPT !.op = "load_growth_data_t2", !.ext = ExtXlsx,
                                        !.wbs = <<wb>>]
              /\ result' = o.ret
              /\ ui' = o.ui
    /\ UNCHANGED <<dataDir, listing, page, proc, cache>>

LoadSchoolGrowthData ==
    /\ Ready
    /\ \E school \in SchoolSet, order \in Orders(listing) :
          \E wbs \in WorkbooksFor(order) :
              LET o == load_school_growth_data(school, order, wbs)
              IN  /\ call' = [NoCall EXCEPT !.op = "load_school_growth_data",
                                            !.school = school, !.ext = ExtXlsx,
                                            !.wbs = wbs]
                  /\ result' = o.ret
                  /\ ui' = o.ui
    /\ UNCHANGED <<dataDir, listing, page, proc, cache>>

LoadAllGrowthData ==
    /\ Ready
    /\ \E order \in Orders(listing) :
          \E wbs \in WorkbooksFor(order) :
              LET o == load_all_growth_data(order, wbs)
              IN  /\ call' = [NoCall EXCEPT !.op = "load_all_growth_data",
                                            !.ext = ExtXlsx, !.wbs = wbs]
                  /\ result' = o.ret
                  /\ ui' = o.ui
    /\ UNCHANGED <<dataDir, listing, page, proc, cache>>

\* the caller takes the returned value
(***************************************************************************)
(* Calls of the loaders of main.py, as the body runs them.                 *)
(***************************************************************************)
LoadEnvDataAll ==
    /\ Ready
    /\ \E o \in load_env_data_all(PageContents) :
          /\ call' = [NoCall EXCEPT !.op = "load_env_data_all", !.keyword = KwEnv,
                                    !.ext = ExtCsv]
          /\ result' = o.ret
          /\ ui' = o.ui
          /\ page' = [NoPage EXCEPT !.env_data = o.data, !.paths = o.paths]
    /\ UNCHANGED <<dataDir, listing, proc, cache>>

LoadGrowthData ==
    /\ Ready
    /\ \E wb \in Workbooks :
          LET o == load_growth_data(wb)
          IN  /\ call' = [NoCall EXCEPT !.op = "load_growth_data", !.ext = ExtXlsx,
                                        !.wbs = <<wb>>]
              /\ result' = o.ret
              /\ ui' = o.ui
    /\ UNCHANGED <<dataDir, listing, page, proc, cache>>

(***************************************************************************)
(* A run of the script of main.py in a process that has a cache: the two   *)
(* decorated loads, then the messages for what is missing.  An exception   *)
(* out of a load ends the run there.                                       *)
(***************************************************************************)
RunMain ==
    /\ Ready
    /\ proc = "main"
    /\ call' = [NoCall EXCEPT !.op = "main.py"]
    /\ \E e \in CachedCall(KeyEnvAll, load_env_data_all(PageContents)) :
          IF e.ret.kind = "raise"
          THEN /\ result' = e.ret
               /\ ui' = e.ui
               /\ page' = [NoPage EXCEPT !.status = "raised"]
               /\ cache' = cache
          ELSE \E g \in CachedCall(KeyGrowth, {load_growth_data(wb) : wb \in PageWorkbooks}) :
                  /\ result' = IF g.ret.kind = "raise" THEN g.ret ELSE Done
                  /\ ui' = IF g.ret.kind = "raise" THEN e.ui
                           ELSE e.ui \cup g.ui \cup MissingFileErrors(e.data, g.ret)
                  /\ page' = [status |-> IF g.ret.kind = "raise" THEN "raised" ELSE "rendered",
                              env_data |-> e.data,
                              growth_df |-> g.ret,
                              paths |-> e.paths,
                              hits |-> {k \in {KeyEnvAll, KeyGrowth} : cache[k].present}]
                  /\ cache' = Store(Store(cache, KeyEnvAll, e), KeyGrowth, g)
    /\ UNCHANGED <<dataDir, listing, proc>>

(***************************************************************************)
(* (test2)main.py: a decorated call of load_school_env_data(school).       *)
(***************************************************************************)
LoadSchoolEnvDataCached ==
    /\ Ready
    /\ proc = "test2"
    /\ \E school \in CachedSchools :
          \E e \in CachedCall(KeySchoolEnv(school),
                              {[ret |-> o.ret, data |-> <<>>, paths |-> <<>>, ui |-> o.ui] :
                                  o \in {load_school_env_data_t2(school, order, bs) :
                                            order \in Orders(listing), bs \in PageContents}}) :
              /\ call' = [NoCall EXCEPT !.op = "load_school_env_data_t2",
                                        !.school = school, !.ext = ExtCsv]
              /\ result' = e.ret
              /\ ui' = e.ui
              /\ page' = [NoPage EXCEPT !.hits = {k \in {KeySchoolEnv(school)} : cache[k].present}]
              /\ cache' = Store(cache, KeySchoolEnv(school), e)
    /\ UNCHANGED <<dataDir, listing, proc>>

Return ==
    /\ ~Ready
    /\ Forget
    /\ UNCHANGED <<dataDir, listing>>

Init ==
    /\ dataDir = "absent"
    /\ listing = {}
    /\ call = NoCall
    /\ result = Idle
    /\ ui = {}
    /\ page = NoPage
    /\ proc = "none"
    /\ cache = NoCache

Next ==
    \/ MakeDataDir
    \/ RemoveDataDir
    \/ CreateEntry
    \/ DeleteEntry
    \/ FindFileBySchoolAndKeyword
    \/ FindGrowthXlsx
    \/ SafeReadCsv
    \/ TryParseTime
    \/ LoadSchoolEnvDataT2
    \/ LoadSchoolEnvDataT3
    \/ LoadGrowthDataT2
    \/ LoadSchoolGrowthData
    \/ LoadAllGrowthData
    \/ LoadEnvDataAll
    \/ LoadGrowthData
    \/ Return

Spec == Init /\ [][Next]_vars

(***************************************************************************)
(* A process that runs one script and keeps its cache: the directory       *)
(* changes between runs of the script of main.py, or between decorated     *)
(* calls of (test2)main.py.                                                *)
(***************************************************************************)
InitSession ==
    /\ dataDir = "absent"
    /\ listing = {}
    /\ call = NoCall
    /\ result = Idle
    /\ ui = {}
    /\ page = NoPage
    /\ proc \in {"main", "test2"}
    /\ cache = NoCache

NextSession ==
    \/ MakeDataDir
    \/ RemoveDataDir
    \/ CreateEntry
    \/ DeleteEntry
    \/ RunMain
    \/ LoadSchoolEnvDataCached
    \/ Return

SpecSession == InitSession /\ [][NextSession]_vars

(***************************************************************************)
(* Properties of the file resolver.                                        *)
(***************************************************************************)
ResolverOpsMain == {"find_file_by_school_and_keyword", "find_growth_xlsx"}
EnvLoaderOps == {"load_school_env_data_t2", "load_school_env_data_t3"}

\* the name contains the key in one of the four pairings of normal forms
KeyIn(key, name) ==
    \E k \in {nfc(key), nfd(key)}, n \in {nfc(name), nfd(name)} : Contains(k, n)

\* the entries that are files named "{key}_환경데이터{ext}" in composed form,
\* for the key and the extension of the call
NamedForCall ==
    {e \in listing : e.kind = "file" /\ nfc(e.name) = EnvName(call.school, call.ext)}

\* the files of the listing that satisfy every test of main.py's resolvers
FullMatches ==
    IF call.op = "find_growth_xlsx"
    THEN {e \in listing : /\ e.kind = "file"
                          /\ lower(suffix(e.name)) = ExtXlsx
                          /\ KeyIn(Kw4, e.name) /\ KeyIn(KwGrowth, e.name)}
    ELSE {e \in listing : /\ e.kind = "file"
                          /\ lower(suffix(e.name)) = lower(call.ext)
                          /\ KeyIn(call.school, e.name) /\ KeyIn(call.keyword, e.name)}

\* C1 as stated: a file whose composed name is "{key}_환경데이터{ext}" is the
\* file the resolver returns for that key and extension, in every listing.
C1_ReturnsThatFile ==
    (call.op \in {"find_file_by_school_and_keyword"} \cup EnvLoaderOps /\ dataDir = "dir")
        => \A e \in NamedForCall : result.name = e.name

\* C1 amended: with such a file in the listing the resolver never answers
\* NotFound; it selects an entry of the listing whose name contains the key,
\* and it selects that very file when no match can be visited before it: in
\* main.py when no matching file has a smaller name, in the other revisions
\* when no other entry contains the key.
C1_ReturnsAMatch ==
    (call.op \in {"find_file_by_school_and_keyword"} \cup EnvLoaderOps /\ dataDir = "dir")
        => \A e \in NamedForCall :
              /\ result.kind # "none"
              /\ result.name \in EntryNames(listing)
              /\ KeyIn(call.school, result.name)
              /\ IF call.op = "find_file_by_school_and_keyword"
                 THEN (\A f \in FullMatches : ~StrLess(f.name, e.name))
                          => result = PathOf(e.name)
                 ELSE (\A f \in listing \ {e} : ~KeyIn(call.school, f.name))
                          => result.name = e.name

\* C1 witness: the file is stored in decomposed form, the key is composed,
\* and the resolver of each revision has returned it.
C1_Witness ==
    /\ call.op \in {"find_file_by_school_and_keyword"} \cup EnvLoaderOps
    /\ \E e \in NamedForCall : e.name # nfc(e.name) /\ result.name = e.name
    /\ result.kind \in {"path", "table"}

\* C2: when two or more files match, main.py's resolvers return the one whose
\* file name is smallest in code point order.
C2_SmallestMatch ==
    (call.op \in ResolverOpsMain /\ dataDir = "dir" /\ Cardinality(FullMatches) >= 2)
        => /\ result.kind = "path"
           /\ result.name \in EntryNames(FullMatches)
           /\ \A f \in FullMatches : f.name = result.name \/ StrLess(result.name, f.name)

\* C2 witness: two files match and one of them has been returned.
C2_Witness ==
    /\ call.op = "find_file_by_school_and_keyword"
    /\ Cardinality(FullMatches) >= 2
    /\ result.kind = "path"

\* C4: when no entry of an existing directory matches, main.py's resolvers
\* return None and raise nothing, whatever the listing holds.
C4_NoMatchIsNone ==
    (call.op \in ResolverOpsMain /\ dataDir = "dir" /\ FullMatches = {})
        => result = None

\* C4 witness: the listing holds a subdirectory whose name would match and a
\* file with another extension, and the resolver has answered None.
C4_Witness ==
    /\ call.op = "find_file_by_school_and_keyword"
    /\ \E e \in listing : e.kind = "dir" /\ nfc(e.name) = EnvName(call.school, call.ext)
    /\ \E e \in listing : e.kind = "file" /\ lower(suffix(e.name)) # lower(call.ext)
    /\ result = None

\* C6 as stated: a returned entry has exactly the requested extension,
\* letter case included.
C6_ExactSuffix ==
    (call.op \in ResolverOpsMain /\ result.kind = "path")
        => suffix(result.name) = call.ext

\* C6 amended: main.py compares the extensions after lower-casing both, so a
\* returned entry has the requested extension up to letter case; the scans of
\* the other revisions accept the suffix ".csv" only as written.
C6_SuffixUpToCase ==
    /\ (call.op \in ResolverOpsMain /\ result.kind = "path")
          => lower(suffix(result.name)) = lower(call.ext)
    /\ (call.op \in EnvLoaderOps /\ result.name # <<>>)
          => suffix(result.name) = ExtCsv

\* C6 witness: ".csv" was requested and a file with the suffix ".CSV" returned.
C6_Witness ==
    /\ call.op = "find_file_by_school_and_keyword"
    /\ call.ext = ExtCsv
    /\ result.kind = "path"
    /\ suffix(result.name) = ExtCsvUpper

\* C3: the entry the scan of load_school_env_data stops at is the same for
\* every order in which iterdir() can enumerate the unchanged listing.
C3_OrderIndependent ==
    (call.op \in EnvLoaderOps /\ dataDir = "dir")
        => \A o \in Orders(listing) :
              ScanEnv(call.school, o).name = result.name

\* C5: with the data directory absent, every lookup of every revision
\* returns None.
C5_MissingDirIsNone ==
    (dataDir = "absent" /\ call.op \in ResolverOpsMain \cup EnvLoaderOps
                                       \cup {"load_growth_data_t2", "load_school_growth_data",
                                             "load_all_growth_data"})
        => result = None

(***************************************************************************)
(* Properties of the tabular loader.                                       *)
(***************************************************************************)
\* the file safe_read_csv was called on can be opened
Readable == OpenError(call.path) = ""

\* the exception a failed safe_read_csv met last
LastCause ==
    IF ~Readable THEN OpenError(call.path)
    ELSE IF DecodeUtf8Sig(call.bytes).ok THEN ParseCsv(DecodeUtf8Sig(call.bytes).text).exc
    ELSE IF DecodeCp949(call.bytes).ok THEN ParseCsv(DecodeCp949(call.bytes).text).exc
    ELSE "UnicodeDecodeError"

\* C7: a readable file that does not decode as UTF-8 but is well-formed
\* delimited text in cp949 is read by the second attempt, made after the
\* first, and its table is returned.
C7_Cp949Fallback ==
    (/\ call.op = "safe_read_csv"
     /\ Readable
     /\ ~DecodeUtf8Sig(call.bytes).ok
     /\ DecodeCp949(call.bytes).ok
     /\ ParseCsv(DecodeCp949(call.bytes).text).ok)
        => /\ call.order = <<"utf-8-sig", "cp949">>
           /\ result.kind = "table"
           /\ result.table = ParseCsv(DecodeCp949(call.bytes).text).table
           /\ ui = {}

\* C7 witness: a cp949 file has been loaded by the second attempt.
C7_Witness ==
    /\ call.op = "safe_read_csv"
    /\ ~DecodeUtf8Sig(call.bytes).ok
    /\ call.order = <<"utf-8-sig", "cp949">>
    /\ result.kind = "table"
    /\ Len(result.table.rows) > 0

\* C8 as stated: whenever safe_read_csv yields no table it returns None and
\* shows a warning that carries the cause.
C8_EveryFailureReported ==
    (call.op = "safe_read_csv" /\ result.kind # "table")
        => /\ result = None
           /\ ui = {Warning("csv_read_failed", call.path, LastCause)}

\* C8 amended: whenever safe_read_csv yields no table it returns None and
\* raises nothing; it shows a warning that carries the cause, except when the
\* first attempt fails because the file does not exist: then it returns None
\* without any message.
C8_FailureReportedUnlessMissing ==
    (call.op = "safe_read_csv" /\ result.kind # "table")
        => /\ result = None
           /\ ui = IF OpenError(call.path) = "FileNotFoundError" THEN {}
                   ELSE {Warning("csv_read_failed", call.path, LastCause)}

\* C8 witness: both attempts failed to decode and the failure was reported.
C8_Witness ==
    /\ call.op = "safe_read_csv"
    /\ call.order = <<"utf-8-sig", "cp949">>
    /\ result = None
    /\ ui = {Warning("csv_read_failed", call.path, "UnicodeDecodeError")}

\* the table try_parse_time was called on
Df == call.df.table

\* C9: a non-empty table whose time column holds a value that is no
\* timestamp comes back as it went in, values and row order, with a warning.
C9_UnparsedTimeKept ==
    (/\ call.op = "try_parse_time"
     /\ call.df.kind = "table"
     /\ HasTime(Df)
     /\ \E k \in DOMAIN Df.rows : Unparseable(Df.rows[k][TimeIndex(Df.cols)]))
        => /\ result = call.df
           /\ ui = {Warning("time_parse_failed", call.school, "ValueError")}

\* C9 witness: a table with a parseable and an unparseable time value has
\* been returned unchanged.
C9_Witness ==
    /\ call.op = "try_parse_time"
    /\ call.df.kind = "table"
    /\ HasTime(Df)
    /\ \E k \in DOMAIN Df.rows : Unparseable(Df.rows[k][TimeIndex(Df.cols)])
    /\ \E k \in DOMAIN Df.rows : Df.rows[k][TimeIndex(Df.cols)].t = "str"
                                    /\ ~Unparseable(Df.rows[k][TimeIndex(Df.cols)])
    /\ result = call.df

\* C10 as stated: every table without a time column, a table without rows
\* included, is returned unmodified with a warning.
C10_NoTimeAlwaysWarned ==
    (call.op = "try_parse_time" /\ call.df.kind = "table" /\ ~HasTime(Df))
        => /\ result = call.df
           /\ ui = {Warning("no_time_column", call.school, "")}

\* C10 amended: every table without a time column is returned unmodified; the
\* warning is shown when the table has at least one row, and a table without
\* rows is returned without any message.
C10_NoTimeWarnedUnlessEmpty ==
    (call.op = "try_parse_time" /\ call.df.kind = "table" /\ ~HasTime(Df))
        => /\ result = call.df
           /\ ui = IF Len(Df.rows) = 0 THEN {}
                   ELSE {Warning("no_time_column", call.school, "")}

\* C10 witness: a table with a row and no time column has been returned with
\* the warning.
C10_Witness ==
    /\ call.op = "try_parse_time"
    /\ call.df.kind = "table"
    /\ ~HasTime(Df)
    /\ Len(Df.rows) > 0
    /\ result = call.df
    /\ ui # {}

(***************************************************************************)
(* C11.  When try_parse_time converts the time column, the table it        *)
(* returns has its rows in non-decreasing order of time (rows without a    *)
(* time come last) and holds exactly the rows of the input, each as often  *)
(* as the input does, with the time cell converted.                        *)
(***************************************************************************)
C11_Parsed ==
    /\ call.op = "try_parse_time"
    /\ call.df.kind = "table"
    /\ Len(call.df.table.cols) > 0 /\ Len(call.df.table.rows) > 0
    /\ \E i \in DOMAIN call.df.table.cols : call.df.table.cols[i] = ColTime
    /\ \A k \in DOMAIN call.df.table.rows :
          LET c == call.df.table.rows[k][TimeIndex(call.df.table.cols)]
          IN  c.t = "str" => ParseDate(c.s) # -1

C11_In ==
    LET ti == TimeIndex(call.df.table.cols)
    IN  [k \in DOMAIN call.df.table.rows |->
            [call.df.table.rows[k] EXCEPT ![ti] =
                IF @.t = "str" THEN Timestamp(ParseDate(@.s))
                ELSE IF @.t = "nan" THEN NaT ELSE @]]

C11_Count(rows, r) == Cardinality({k \in DOMAIN rows : rows[k] = r})

C11_SortedSameRows ==
    C11_Parsed =>
        /\ result.kind = "table"
        /\ result.table.cols = call.df.table.cols
        /\ Len(result.table.rows) = Len(C11_In)
        /\ LET ti == TimeIndex(call.df.table.cols)
               out == result.table.rows
           IN  /\ \A k \in 1..(Len(out) - 1) :
                     \/ out[k + 1][ti].t = "nat"
                     \/ /\ out[k][ti].t = "ts" /\ out[k + 1][ti].t = "ts"
                        /\ out[k][ti].v <= out[k + 1][ti].v
               /\ \A k \in DOMAIN out :
                     /\ C11_Count(out, out[k]) = C11_Count(C11_In, out[k])
                     /\ C11_Count(out, C11_In[k]) = C11_Count(C11_In, C11_In[k])

\* a table of four rows, out of order, one without a time and two of the same
\* time, comes back reordered
C11_Witness ==
    /\ C11_Parsed
    /\ result.kind = "table"
    /\ Len(result.table.rows) = 4
    /\ result.table.rows # C11_In
    /\ \E k \in DOMAIN C11_In : C11_In[k][TimeIndex(call.df.table.cols)].t = "nat"
    /\ \E j, k \in DOMAIN C11_In :
          /\ j < k
          /\ C11_In[j][TimeIndex(call.df.table.cols)].t = "ts"
          /\ C11_In[j][TimeIndex(call.df.table.cols)] = C11_In[k][TimeIndex(call.df.table.cols)]
    /\ result.table.rows[4][TimeIndex(call.df.table.cols)].t = "nat"

(***************************************************************************)
(* C14.  safe_read_csv reads one file in at most two attempts, utf-8-sig   *)
(* first and cp949 second; the second attempt is made only after the first *)
(* failed to decode, none follows it, and the call finishes with a table   *)
(* or with None.                                                           *)
(***************************************************************************)
C14_AtMostTwoAttempts ==
    call.op = "safe_read_csv" =>
        /\ call.order \in {<<"utf-8-sig">>, <<"utf-8-sig", "cp949">>}
        /\ Len(call.order) = 2 => (Readable /\ ~DecodeUtf8Sig(call.bytes).ok)
        /\ result.kind \in {"table", "none"}

\* calls of one attempt that failed for another reason than decoding, and
\* calls of two attempts that end either way
C14_Witness ==
    /\ call.op = "safe_read_csv"
    /\ \/ /\ call.order = <<"utf-8-sig">> /\ result.kind = "none"
          /\ Readable /\ DecodeUtf8Sig(call.bytes).ok
          /\ call.bytes = <<>>
       \/ /\ call.order = <<"utf-8-sig", "cp949">> /\ result.kind = "none"
          /\ ~DecodeCp949(call.bytes).ok

(***************************************************************************)
(* C12.  No load lets a failure out as an exception: load_env_data_all and *)
(* load_growth_data of main.py, load_school_env_data, load_growth_data,    *)
(* load_school_growth_data and load_all_growth_data of the other revisions *)
(* each end with a table or None for every dataset they load.              *)
(***************************************************************************)
LoadOps ==
    {"load_env_data_all", "load_growth_data", "load_school_env_data_t2",
     "load_school_env_data_t3", "load_growth_data_t2", "load_school_growth_data",
     "load_all_growth_data"}

C12_LoadsNeverRaise ==
    call.op \in LoadOps =>
        \/ result.kind \in {"table", "none"}
        \/ /\ result.kind = "dict"
           /\ \A s \in SchoolSet : page.env_data[s].kind \in {"table", "none"}

(***************************************************************************)
(* Properties of a process with its cache (SpecSession).                   *)
(***************************************************************************)
\* the script of main.py got its dict from load_env_data_all
EnvLoaded == call.op = "main.py" /\ page.status \in {"rendered", "raised"} /\ page.paths # <<>>

\* C13: for every school whose environment file the resolver did not find,
\* the script of main.py shows the file-not-found error that names the
\* school, and the run goes on to the rest of the page.
C13_MissingSchoolReported ==
    EnvLoaded =>
        \A s \in SchoolSet :
            page.paths[s].kind = "none" =>
                /\ [level |-> "error", msg |-> "file_not_found", about |-> s, cause |-> ""] \in ui
                /\ page.status = "rendered"

\* one school without a file is named in an error while another, whose file
\* was read, is not
C13_Witness ==
    /\ EnvLoaded
    /\ page.status = "rendered"
    /\ \E s, t \in SchoolSet :
          /\ page.paths[s].kind = "none"
          /\ Error("file_not_found", s) \in ui
          /\ page.paths[t].kind = "path"
          /\ page.env_data[t].kind = "table"
          /\ Error("file_not_found", t) \notin ui

(***************************************************************************)
(* C16.  A decorated loader is run once per arguments: once a call of      *)
(* load_env_data_all(), load_growth_data() or load_school_env_data(school) *)
(* has returned, its entry never changes, and every later call with the    *)
(* same arguments returns the value of that first call, None included,     *)
(* whatever the data directory holds by then.                              *)
(***************************************************************************)
C16_Memoized ==
    [][\A k \in CacheKeys :
          cache[k].present =>
              /\ cache'[k] = cache[k]
              /\ (k = KeyEnvAll /\ call'.op = "main.py") =>
                     /\ page'.status \in {"rendered", "raised"}
                     /\ page'.env_data = cache[k].data
              /\ (k = KeyGrowth /\ call'.op = "main.py") =>
                     /\ page'.status = "rendered"
                     /\ page'.growth_df = cache[k].ret
              /\ \A s \in SchoolSet :
                     (k = KeySchoolEnv(s) /\ call'.op = "load_school_env_data_t2"
                                         /\ call'.school = s) =>
                         result' = cache[k].ret]_vars

\* a later run is answered with the None of the first although the file of
\* the school is in the directory by now; likewise a decorated call of
\* (test2)main.py is answered with a table whose file is gone
C16_Witness ==
    \/ /\ call.op = "main.py"
       /\ page.status = "rendered"
       /\ KeyEnvAll \in page.hits
       /\ \E s \in SchoolSet :
             /\ page.env_data[s].kind = "none"
             /\ page.paths[s].kind = "none"
             /\ dataDir = "dir"
             /\ \E e \in listing :
                   /\ e.kind = "file"
                   /\ e.name = EnvName(s, ExtCsv)
    \/ /\ call.op = "load_school_env_data_t2"
       /\ page.hits # {}
       /\ result.kind = "table"
       /\ dataDir = "absent"

(***************************************************************************)
(* C17.  The script of main.py shows the file-not-found error for a school *)
(* only if the resolver returned no file for it: a school whose file was   *)
(* found and could not be read gets the read-failure warning and no        *)
(* file-not-found error.                                                   *)
(***************************************************************************)
C17_NotFoundOnlyIfUnresolved ==
    (EnvLoaded /\ page.status = "rendered") =>
        \A s \in SchoolSet :
            Error("file_not_found", s) \in ui => page.paths[s].kind = "none"

(***************************************************************************)
(* C15.  load_school_growth_data(school) compares the school with every    *)
(* sheet name as the file resolver compares a key with a name, either      *)
(* normal form of the one against either normal form of the other; it      *)
(* returns the table of a sheet that matches, and None when no sheet of    *)
(* any spreadsheet file matches.                                           *)
(***************************************************************************)
\* the sheets that match the school of the call: file by position among the
\* spreadsheet files, sheet by position in the workbook
C15_Matches ==
    UNION { {<<i, k>> : k \in {j \in DOMAIN call.wbs[i].sheets :
                                  KeyIn(call.school, call.wbs[i].sheets[j].name)}} :
            i \in DOMAIN call.wbs }

C15_SheetOrNone ==
    call.op = "load_school_growth_data" =>
        IF C15_Matches # {}
        THEN /\ result.kind = "table"
             /\ \E m \in C15_Matches : result.table = call.wbs[m[1]].sheets[m[2]].table
        ELSE result.kind = "none"

====
